---------------------------- MODULE Spec2Model ----------------------------
(***************************************************************************)
(* Model of the RPN calculator of src/src/rpn_calc.py: the tokenizer, the  *)
(* stack evaluator with its recursion into nested sub-expressions, and the *)
(* entry point evaluate_rpn_input.                                         *)
(*                                                                         *)
(* Strings are sequences of one-character strings.  A number is a record   *)
(* [tag, n, d]: an int has d = 1, a float is the exact rational n/d in     *)
(* lowest terms.  Results that leave the modelled arithmetic domain        *)
(* (magnitude above MaxMagnitude, irrational roots, fractional exponents)  *)
(* are not explored: the step that would produce them is disabled.         *)
(***************************************************************************)
EXTENDS Integers, Sequences, FiniteSets, TLC

\* Bounds of the model.
MaxWords == 3
MaxMagnitude == 10000

-----------------------------------------------------------------------------
\* Characters

Digits == {"0", "1", "2", "3", "4", "5", "6", "7", "8", "9"}

Letters ==
  {"a", "b", "c", "d", "e", "f", "g", "h", "i", "j", "k", "l", "m",
   "n", "o", "p", "q", "r", "s", "t", "u", "v", "w", "x", "y", "z"}

isspace(c) == c = " "
isdigit(c) == c \in Digits
isalpha(c) == c \in Letters
isalnum(c) == isalpha(c) \/ isdigit(c)

DigitValue(c) ==
  CASE c = "0" -> 0 [] c = "1" -> 1 [] c = "2" -> 2 [] c = "3" -> 3
    [] c = "4" -> 4 [] c = "5" -> 5 [] c = "6" -> 6 [] c = "7" -> 7
    [] c = "8" -> 8 [] c = "9" -> 9

\* constants.py: the operator symbols and the function registry (name -> <<min_args, max_args>>).
ALLOWED_OPERATORS ==
  {<<"+">>, <<"-">>, <<"*">>, <<"/">>, <<"/", "/">>, <<"%">>, <<"*", "*">>}

FN_abs == <<"a", "b", "s">>
FN_sqrt == <<"s", "q", "r", "t">>
FN_pow == <<"p", "o", "w">>
FN_max == <<"m", "a", "x">>
FN_min == <<"m", "i", "n">>

BUILTIN_NAMES == {FN_abs, FN_sqrt, FN_pow, FN_max, FN_min}

BUILTIN_FUNCTIONS(name) ==
  CASE name = FN_abs -> <<1, 1>>
    [] name = FN_sqrt -> <<1, 1>>
    [] name = FN_pow -> <<2, 2>>
    [] name = FN_max -> <<1, 3>>
    [] name = FN_min -> <<1, 3>>

\* `char in ALLOWED_OPERATORS` for a single character
IsOperatorChar(c) == <<c>> \in ALLOWED_OPERATORS

-----------------------------------------------------------------------------
\* str.strip, str.startswith, str.endswith

RECURSIVE lstrip(_)
lstrip(s) ==
  IF s # <<>> /\ isspace(Head(s)) THEN lstrip(Tail(s)) ELSE s

RECURSIVE rstrip(_)
rstrip(s) ==
  IF s # <<>> /\ isspace(s[Len(s)]) THEN rstrip(SubSeq(s, 1, Len(s) - 1)) ELSE s

strip(s) == rstrip(lstrip(s))

startswith(s, c) == s # <<>> /\ s[1] = c
endswith(s, c) == s # <<>> /\ s[Len(s)] = c

-----------------------------------------------------------------------------
\* _find_matching_parenthesis: the index of the ')' closing the '(' at start,
\* 0 for "unbalanced parentheses".  Indices are 1-based.

RECURSIVE ParenScan(_, _, _)
ParenScan(expression, pos, depth) ==
  IF pos <= Len(expression) /\ depth > 0
    THEN ParenScan(expression, pos + 1,
                   IF expression[pos] = "(" THEN depth + 1
                   ELSE IF expression[pos] = ")" THEN depth - 1
                   ELSE depth)
    ELSE IF depth = 0 THEN pos - 1 ELSE 0

find_matching_parenthesis(expression, start) == ParenScan(expression, start + 1, 1)

-----------------------------------------------------------------------------
\* _tokenize_expression

\* first index >= i that is not a digit or '.'
RECURSIVE NumberEnd(_, _)
NumberEnd(expression, i) ==
  IF i <= Len(expression) /\ (isdigit(expression[i]) \/ expression[i] = ".")
    THEN NumberEnd(expression, i + 1)
    ELSE i

\* first index >= i that is not an operator character, alphanumeric or '_'
RECURSIVE WordEnd(_, _)
WordEnd(expression, i) ==
  IF i <= Len(expression)
     /\ (IsOperatorChar(expression[i]) \/ isalnum(expression[i]) \/ expression[i] = "_")
    THEN WordEnd(expression, i + 1)
    ELSE i

StartsNumber(expression, i) ==
  \/ isdigit(expression[i])
  \/ /\ expression[i] = "-"
     /\ i + 1 <= Len(expression)
     /\ isdigit(expression[i + 1])

TokResult(err, tokens) == [err |-> err, tokens |-> tokens]

RECURSIVE TokenizeFrom(_, _, _)
TokenizeFrom(expression, i, tokens) ==
  IF i > Len(expression) THEN TokResult("none", tokens)
  ELSE LET char == expression[i] IN
    IF isspace(char) THEN TokenizeFrom(expression, i + 1, tokens)
    ELSE IF char = "(" THEN
      LET end == find_matching_parenthesis(expression, i) IN
      IF end = 0 THEN TokResult("UnbalancedParentheses", tokens)
      ELSE TokenizeFrom(expression, end + 1, Append(tokens, SubSeq(expression, i, end)))
    ELSE IF StartsNumber(expression, i) THEN
      LET e == NumberEnd(expression, i + 1) IN
      TokenizeFrom(expression, e, Append(tokens, SubSeq(expression, i, e - 1)))
    ELSE IF IsOperatorChar(char) \/ isalpha(char) THEN
      LET e == WordEnd(expression, i + 1) IN
      TokenizeFrom(expression, e, Append(tokens, SubSeq(expression, i, e - 1)))
    ELSE IF char \in {"$", "~"} THEN
      TokenizeFrom(expression, i + 1, Append(tokens, <<char>>))
    ELSE TokResult("UnknownSymbol", tokens)

tokenize_expression(expression) == TokenizeFrom(expression, 1, <<>>)

-----------------------------------------------------------------------------
\* Numbers: Python int and float

Abs(n) == IF n < 0 THEN -n ELSE n

RECURSIVE GCD(_, _)
GCD(a, b) == IF b = 0 THEN a ELSE GCD(b, a % b)

PyInt(n) == [tag |-> "int", n |-> n, d |-> 1]

\* the float n/d (d # 0), in lowest terms with a positive denominator
PyFloat(n, d) ==
  LET g == GCD(Abs(n), Abs(d))
      s == IF d < 0 THEN -1 ELSE 1
  IN [tag |-> "float", n |-> (s * n) \div g, d |-> (s * d) \div g]

isinstance_int(v) == v.tag = "int"

\* a result of an operation: a value, an error kind, or "Unmodelled"
Ok(v) == [err |-> "none", val |-> v]
Raise(kind) == [err |-> kind, val |-> PyInt(0)]

InModel(v) == Abs(v.n) <= MaxMagnitude /\ v.d <= MaxMagnitude

Bounded(v) == IF InModel(v) THEN Ok(v) ELSE Raise("Unmodelled")

\* int op int -> int, anything else -> float
Promote(a, b, n, d) ==
  IF isinstance_int(a) /\ isinstance_int(b) THEN PyInt(n) ELSE PyFloat(n, d)

Add(a, b) == Promote(a, b, a.n * b.d + b.n * a.d, a.d * b.d)
Sub(a, b) == Promote(a, b, a.n * b.d - b.n * a.d, a.d * b.d)
Mul(a, b) == Promote(a, b, a.n * b.n, a.d * b.d)
TrueDiv(a, b) == PyFloat(a.n * b.d, a.d * b.n)

\* Python's // and % on ints: the quotient is rounded towards minus infinity
FloorDiv(a, b) == IF b > 0 THEN a \div b ELSE (-a) \div (-b)
Mod(a, b) == a - b * FloorDiv(a, b)

Less(a, b) == a.n * b.d < b.n * a.d
IsZero(v) == v.n = 0

Neg(a) == [a EXCEPT !.n = -a.n]
Pos(a) == a

\* b^e for e >= 0, no longer multiplied once it exceeds the modelled magnitude
RECURSIVE IntPow(_, _)
IntPow(b, e) ==
  IF e = 0 THEN 1
  ELSE LET r == IntPow(b, e - 1) IN
       IF Abs(r) > MaxMagnitude THEN r ELSE r * b

\* a ** b and pow(a, b); "ZeroDivisionError" is Python's own exception
Power(a, b) ==
  IF b.d # 1 THEN Raise("Unmodelled")
  ELSE IF Abs(a.n) > MaxMagnitude \/ a.d > MaxMagnitude \/ Abs(b.n) > MaxMagnitude
    THEN Raise("Unmodelled")
  ELSE IF b.n >= 0 THEN
    Bounded(Promote(a, b, IntPow(a.n, b.n), IntPow(a.d, b.n)))
  ELSE IF IsZero(a) THEN Raise("ZeroDivisionError")
  ELSE Bounded(PyFloat(IntPow(a.d, -b.n), IntPow(a.n, -b.n)))

RECURSIVE RootSearch(_, _)
RootSearch(n, k) == IF k * k >= n THEN k ELSE RootSearch(n, k + 1)

IsSquare(n) == LET k == RootSearch(n, 0) IN k * k = n

\* math.sqrt: a float; "ValueError" below zero
MathSqrt(a) ==
  IF a.n < 0 THEN Raise("ValueError")
  ELSE IF ~InModel(a) \/ ~IsSquare(a.n) \/ ~IsSquare(a.d) THEN Raise("Unmodelled")
  ELSE Ok(PyFloat(RootSearch(a.n, 0), RootSearch(a.d, 0)))

BuiltinAbs(a) == [a EXCEPT !.n = Abs(a.n)]

\* max(args), min(args): the first of the largest (smallest) elements
RECURSIVE BuiltinMax(_)
BuiltinMax(args) ==
  IF Len(args) = 1 THEN args[1]
  ELSE LET m == BuiltinMax(SubSeq(args, 1, Len(args) - 1))
           x == args[Len(args)]
       IN IF Less(m, x) THEN x ELSE m

RECURSIVE BuiltinMin(_)
BuiltinMin(args) ==
  IF Len(args) = 1 THEN args[1]
  ELSE LET m == BuiltinMin(SubSeq(args, 1, Len(args) - 1))
           x == args[Len(args)]
       IN IF Less(x, m) THEN x ELSE m

-----------------------------------------------------------------------------
\* Number literals: _NUMBER_RE.fullmatch, int(token), float(token)

AllDigits(s) == s # <<>> /\ \A i \in 1..Len(s) : isdigit(s[i])

DotPositions(s) == {i \in 1..Len(s) : s[i] = "."}

\* \d+(?:\.\d+)?
NUMBER_RE_fullmatch(token) ==
  \/ AllDigits(token)
  \/ \E p \in DotPositions(token) :
       /\ AllDigits(SubSeq(token, 1, p - 1))
       /\ AllDigits(SubSeq(token, p + 1, Len(token)))

RECURSIVE ParseDigits(_)
ParseDigits(s) ==
  IF s = <<>> THEN 0
  ELSE 10 * ParseDigits(SubSeq(s, 1, Len(s) - 1)) + DigitValue(s[Len(s)])

\* float(token) if "." in token else int(token), for a token NUMBER_RE matches
ParseNumber(token) ==
  IF DotPositions(token) # {} THEN
    LET p == CHOOSE i \in DotPositions(token) : TRUE
        frac == SubSeq(token, p + 1, Len(token))
        scale == IntPow(10, Len(frac))
    IN PyFloat(ParseDigits(SubSeq(token, 1, p - 1)) * scale + ParseDigits(frac), scale)
  ELSE PyInt(ParseDigits(token))

-----------------------------------------------------------------------------
\* _apply_operator

OP_add == <<"+">>
OP_sub == <<"-">>
OP_mul == <<"*">>
OP_div == <<"/">>
OP_floordiv == <<"/", "/">>
OP_mod == <<"%">>
OP_pow == <<"*", "*">>

\* mutant of TrueDivide: a zero divisor yields 0.0 instead of an error
TrueDivideZeroAsZero(a, b) ==
  IF IsZero(b) THEN Ok(PyFloat(0, 1)) ELSE Bounded(TrueDiv(a, b))

\* lines 113-116
TrueDivide(a, b) ==
  IF IsZero(b) THEN Raise("DivisionByZero") ELSE Bounded(TrueDiv(a, b))

apply_operator(a, b, op) ==
  IF op = OP_add THEN Bounded(Add(a, b))
  ELSE IF op = OP_sub THEN Bounded(Sub(a, b))
  ELSE IF op = OP_mul THEN Bounded(Mul(a, b))
  ELSE IF op = OP_div THEN TrueDivide(a, b)
  ELSE IF op = OP_floordiv THEN
    IF ~isinstance_int(a) \/ ~isinstance_int(b) THEN Raise("TypeError")
    ELSE IF IsZero(b) THEN Raise("DivisionByZero")
    ELSE Ok(PyInt(FloorDiv(a.n, b.n)))
  ELSE IF op = OP_mod THEN
    IF ~isinstance_int(a) \/ ~isinstance_int(b) THEN Raise("TypeError")
    ELSE IF IsZero(b) THEN Raise("DivisionByZero")
    ELSE Ok(PyInt(Mod(a.n, b.n)))
  ELSE IF op = OP_pow THEN Power(a, b)
  ELSE Raise("UnknownOperator")

-----------------------------------------------------------------------------
\* _call_builtin

\* the body of the try block
BuiltinBody(name, args) ==
  IF name = FN_abs THEN Ok(BuiltinAbs(args[1]))
  ELSE IF name = FN_sqrt THEN MathSqrt(args[1])
  ELSE IF name = FN_pow THEN Power(args[1], args[2])
  ELSE IF name = FN_max THEN Ok(BuiltinMax(args))
  ELSE Ok(BuiltinMin(args))

call_builtin(name, args) ==
  IF name \notin BUILTIN_NAMES THEN Raise("UnknownFunction")
  ELSE LET min_args == BUILTIN_FUNCTIONS(name)[1]
           max_args == BUILTIN_FUNCTIONS(name)[2]
       IN IF ~(min_args <= Len(args) /\ Len(args) <= max_args)
            THEN Raise("TooManyArguments")
          ELSE LET r == BuiltinBody(name, args) IN
               IF r.err \in {"none", "Unmodelled"} THEN r
               ELSE Raise("FunctionExecutionError")

-----------------------------------------------------------------------------
\* Steps of _evaluate_tokens on one token.  A step result is
\* [err, stack, popped, args, poppedEmpty]: the error raised ("none" if the
\* step completed), the stack afterwards, how many values were popped, the
\* operands handed to the operation in call order, and whether list.pop()
\* was called on an empty list (Python's IndexError).

StepResult(err, stack, popped, args, poppedEmpty) ==
  [err |-> err, stack |-> stack, popped |-> popped, args |-> args,
   poppedEmpty |-> poppedEmpty]

\* stack.pop() k times: what is left, and the popped values, last pushed first
Remaining(stack, k) == SubSeq(stack, 1, Len(stack) - k)
PoppedValues(stack, k) == [i \in 1..k |-> stack[Len(stack) - i + 1]]
Reversed(s) == [i \in 1..Len(s) |-> s[Len(s) - i + 1]]

\* k pops on a stack that holds fewer than k values
PopUnderflow(stack, k) ==
  StepResult("IndexError", <<>>, Len(stack), <<>>, TRUE)

UNARY_TOKENS == {<<"$">>, <<"~">>}

is_nested(token) == startswith(token, "(") /\ endswith(token, ")")

\* line 151: `if not stack`
UnaryLacksOperand(stack) == Len(stack) = 0

\* lines 150-155
UnaryStep(stack, token) ==
  IF UnaryLacksOperand(stack)
    THEN StepResult("InsufficientOperands", stack, 0, <<>>, FALSE)
  ELSE IF Len(stack) < 1 THEN PopUnderflow(stack, 1)
  ELSE LET a == stack[Len(stack)]
           r == IF token = <<"$">> THEN Pos(a) ELSE Neg(a)
       IN StepResult("none", Append(Remaining(stack, 1), r), 1, <<a>>, FALSE)

\* mutant of OperatorLacksOperands: the guard is off by one
OperatorLacksOperandsOffByOne(stack) == Len(stack) < 1

\* line 158: `if len(stack) < 2`
OperatorLacksOperands(stack) == Len(stack) < 2

\* lines 160-162: b = stack.pop(); a = stack.pop(); _apply_operator(a, b, token)
OperatorOperands(stack) == <<stack[Len(stack) - 1], stack[Len(stack)]>>

\* lines 157-163
OperatorStep(stack, token) ==
  IF OperatorLacksOperands(stack)
    THEN StepResult("InsufficientOperands", stack, 0, <<>>, FALSE)
  ELSE IF Len(stack) < 2 THEN PopUnderflow(stack, 2)
  ELSE LET ab == OperatorOperands(stack)
           r == apply_operator(ab[1], ab[2], token)
       IN IF r.err = "none"
            THEN StepResult("none", Append(Remaining(stack, 2), r.val), 2, ab, FALSE)
            ELSE StepResult(r.err, Remaining(stack, 2), 2, ab, FALSE)

\* lines 169, 173: `if len(stack) < min_args`
FunctionLacksArguments(size, min_args) == size < min_args

\* mutant of NumArgs: a variadic function takes the whole stack
NumArgsWholeStack(size, min_args, max_args) ==
  IF max_args > min_args THEN size ELSE min_args

\* lines 168-175: num_args
NumArgs(size, min_args, max_args) ==
  IF max_args > min_args
    THEN (IF size <= max_args THEN size ELSE max_args)
    ELSE min_args

\* line 177: args = [stack.pop() for _ in range(num_args)][::-1]
FunctionArgs(stack, num_args) == Reversed(PoppedValues(stack, num_args))

\* lines 165-179
FunctionStep(stack, token) ==
  LET min_args == BUILTIN_FUNCTIONS(token)[1]
      max_args == BUILTIN_FUNCTIONS(token)[2]
  IN IF FunctionLacksArguments(Len(stack), min_args)
       THEN StepResult("InsufficientArguments", stack, 0, <<>>, FALSE)
     ELSE LET num_args == NumArgs(Len(stack), min_args, max_args) IN
       IF Len(stack) < num_args THEN PopUnderflow(stack, num_args)
       ELSE LET args == FunctionArgs(stack, num_args)
                r == call_builtin(token, args)
            IN IF r.err = "none"
                 THEN StepResult("none", Append(Remaining(stack, num_args), r.val),
                                 num_args, args, FALSE)
                 ELSE StepResult(r.err, Remaining(stack, num_args), num_args, args, FALSE)

\* mutant of StackReduced: values left under the result are ignored
StackReducedAtLeastOne(stack) == Len(stack) >= 1

\* line 184: the stack reduced to exactly one value
StackReduced(stack) == Len(stack) = 1

\* lines 208-215: what evaluate_rpn_input turns an exception into
MapException(kind) ==
  IF kind = "IndexError" THEN "InsufficientOperands"
  ELSE IF kind = "ZeroDivisionError" THEN "DivisionByZero"
  ELSE kind

-----------------------------------------------------------------------------
\* evaluate_rpn_input, lines 196-203

\* mutant of IsParenthesized: only the opening parenthesis is looked at
IsParenthesizedOpenOnly(text) == startswith(text, "(")

\* line 199
IsParenthesized(text) == startswith(text, "(") /\ endswith(text, ")")

Wrapped(text) == <<"(">> \o text \o <<")">>

InnerText(rpn_expression) ==
  LET stripped == strip(rpn_expression)
      text == IF IsParenthesized(stripped) THEN stripped ELSE Wrapped(stripped)
  IN strip(SubSeq(text, 2, Len(text) - 1))

-----------------------------------------------------------------------------
\* The expressions the caller passes in

RECURSIVE Join(_)
Join(words) ==
  IF words = <<>> THEN <<>>
  ELSE IF Len(words) = 1 THEN words[1]
  ELSE words[1] \o <<" ">> \o Join(Tail(words))

SeqsUpTo(S, n) == UNION {[1..k -> S] : k \in 0..n}

CoreWords ==
  {<<"0">>,
   <<"5">>,
   <<"-", "3">>,
   <<"7", ".", "5">>,
   <<"-">>,
   <<"/">>,
   <<"%">>,
   <<"~">>,
   <<"s", "q", "r", "t">>,
   <<"m", "a", "x">>,
   <<"(", "2", " ", "5", " ", "+", ")">>,
   <<"(", "5", " ", "0", " ", "/", ")">>}

NumberWords ==
  {<<"0">>,
   <<"2">>,
   <<"5">>,
   <<"-", "3">>,
   <<"7", ".", "5">>}

OperatorWords ==
  {<<"+">>,
   <<"-">>,
   <<"*">>,
   <<"/">>,
   <<"/", "/">>,
   <<"%">>,
   <<"*", "*">>}

SmallNumberWords ==
  {<<"0">>,
   <<"2">>,
   <<"5">>}

FunctionWords ==
  {<<"a", "b", "s">>,
   <<"s", "q", "r", "t">>,
   <<"p", "o", "w">>,
   <<"m", "a", "x">>,
   <<"m", "i", "n">>,
   <<"m", "a", "x", "3">>,
   <<"m", "a", "x", "0">>,
   <<"m", "i", "n", "2">>,
   <<"u", "-">>,
   <<"~">>,
   <<"$">>}

OperandWords ==
  {<<"4">>,
   <<"(", "1", ")">>,
   <<"(", "2", " ", "5", " ", "+", ")">>,
   <<"(", "5", " ", "0", " ", "/", ")">>,
   <<"(", ")">>,
   <<"(", "(", "2", ")", " ", "5", " ", "*", ")">>,
   <<"(", "7", " ", "(", "0", " ", "1", " ", "-", ")", " ", "%", ")">>}

NestingOperatorWords ==
  {<<"+">>,
   <<"*">>,
   <<"/">>}

ParenWords ==
  {<<"(">>,
   <<")">>,
   <<"1">>,
   <<"+">>}

Examples ==
  {<<"3", " ", "4", " ", "2", " ", "*", " ", "+">>,
   <<"5", " ", "1", " ", "2", " ", "+", " ", "4", " ", "*", " ", "+", " ", "3", " ", "-">>,
   <<"2", " ", "3", " ", "p", "o", "w">>,
   <<"1", " ", "5", " ", "3", " ", "m", "a", "x", "3">>,
   <<"9", " ", "s", "q", "r", "t">>,
   <<"5", " ", "u", "-">>,
   <<"7", " ", "2", " ", "/", "/">>,
   <<"1", "0", " ", "3", " ", "%">>,
   <<"2", " ", "+">>,
   <<"1", " ", "2">>,
   <<"a", "b", "c">>,
   <<"?">>,
   <<"1", " ", "m", "a", "x", "0">>,
   <<"1", " ", "2", " ", "m", "i", "n", "1", "0", "0", "0", "0">>,
   <<"(", "1", " ", "2", " ", "+", ")", " ", "4", " ", "*">>,
   <<"(", "1", ")", " ", "2", " ", "+", " ", "(", "3", ")">>,
   <<"-", "3", " ", "5", " ", "+">>,
   <<" ", "5", " ">>,
   <<"1", ".", "2", ".", "3">>,
   <<"5", " ", "2", " ", "-">>,
   <<"-", "7", ".", "5">>,
   <<"3", "-", "2">>,
   <<"5", " ", "0", ".", "0", " ", "/">>,
   <<"(", "9", " ", "s", "q", "r", "t", ")", " ", "(", "0", " ", "4", " ", "-", ")", " ", "(", "1", ")", " ", "(", "2", ")", " ", "m", "a", "x">>,
   <<"2", " ", "(", "0", " ", "1", " ", "-", ")", " ", "*", "*">>,
   <<"0", " ", "(", "0", " ", "1", " ", "-", ")", " ", "p", "o", "w">>,
   <<"(", "(", "1", ")", " ", "(", "2", ")", " ", "+", ")", " ", "(", "(", "3", ")", " ", "(", "0", ")", " ", "/", ")", " ", "*">>}

\* every sequence of at most MaxWords core words
CoreInputs == {Join(ws) : ws \in SeqsUpTo(CoreWords, MaxWords)}

\* "a b op"
BinaryInputs ==
  {Join(<<a, b, op>>) : a \in NumberWords, b \in NumberWords, op \in OperatorWords}

\* up to MaxWords + 1 operands and a function or unary token
FunctionInputs ==
  {Join(Append(ws, f)) : ws \in SeqsUpTo(SmallNumberWords, MaxWords + 1), f \in FunctionWords}

\* two operands, nested or not, and an operator
NestedInputs ==
  {Join(<<x, y, op>>) : x \in OperandWords, y \in OperandWords, op \in NestingOperatorWords}

\* parentheses, balanced or not
ParenInputs == {Join(ws) : ws \in SeqsUpTo(ParenWords, MaxWords + 1)}

Inputs ==
  CoreInputs \cup BinaryInputs \cup FunctionInputs \cup NestedInputs
    \cup ParenInputs \cup Examples

-----------------------------------------------------------------------------
\* The state

VARIABLES
  expr,      \* the expression E the caller evaluates, then evaluates as "(E)"
  outcomes,  \* what the calls of evaluate_rpn_input made so far returned or raised
  frames,    \* the activations of evaluate_rpn_input, the innermost last
  last       \* the step taken last

vars == <<expr, outcomes, frames, last>>

NoValue == PyInt(0)

Frame(text, phase, tokens, idx, stack) ==
  [text |-> text, phase |-> phase, tokens |-> tokens, idx |-> idx, stack |-> stack]

Top == frames[Len(frames)]
Token == Top.tokens[Top.idx]
Depth == Len(frames)

\* what a step did: the activation it ran in (depth, consumed tokens of
\* ntokens), the token, the stack before and after, the values popped, the
\* operands passed on, the error raised and the value returned or pushed
Event(kind, token, depth, before, step, result) ==
  [kind |-> kind, token |-> token, depth |-> depth,
   consumed |-> IF depth = 0 THEN 0 ELSE frames[depth].idx - 1,
   ntokens |-> IF depth = 0 THEN 0 ELSE Len(frames[depth].tokens),
   before |-> before,
   err |-> step.err, after |-> step.stack, popped |-> step.popped,
   args |-> step.args, poppedEmpty |-> step.poppedEmpty, result |-> result]

NoStep(stack) == StepResult("none", stack, 0, <<>>, FALSE)

Evaluating == frames # <<>> /\ Top.phase = "eval" /\ Top.idx <= Len(Top.tokens)

\* the argument of the next call: E, then "(E)"
NextArgument == IF outcomes = <<>> THEN expr ELSE Wrapped(expr)

Init ==
  /\ expr \in Inputs
  /\ outcomes = <<>>
  /\ frames = <<>>
  /\ last = Event("init", <<>>, 0, <<>>, NoStep(<<>>), NoValue)

\* the caller calls evaluate_rpn_input
Call ==
  /\ frames = <<>>
  /\ Len(outcomes) < 2
  /\ frames' = <<Frame(NextArgument, "enter", <<>>, 1, <<>>)>>
  /\ last' = Event("call", <<>>, 0, <<>>, NoStep(<<>>), NoValue)
  /\ UNCHANGED <<expr, outcomes>>

\* an exception leaves every activation: the call fails
Fail(kind) ==
  /\ outcomes' = Append(outcomes, Raise(MapException(kind)))
  /\ frames' = <<>>

\* the top activation goes on with the next token
Continue(stack) ==
  /\ frames' = [frames EXCEPT ![Len(frames)] =
                  [@ EXCEPT !.idx = @ + 1, !.stack = stack]]
  /\ UNCHANGED outcomes

Apply(step) ==
  IF step.err = "none" THEN Continue(step.stack) ELSE Fail(step.err)

\* lines 196-204: strip, wrap, strip the outer parentheses, tokenize
Enter ==
  /\ frames # <<>>
  /\ Top.phase = "enter"
  /\ LET t == tokenize_expression(InnerText(Top.text)) IN
       /\ IF t.err = "none"
            THEN /\ frames' = [frames EXCEPT ![Len(frames)] =
                                 Frame(Top.text, "eval", t.tokens, 1, <<>>)]
                 /\ UNCHANGED outcomes
            ELSE Fail(t.err)
       /\ last' = Event("enter", <<>>, Depth, <<>>,
                        StepResult(t.err, <<>>, 0, <<>>, FALSE), NoValue)
  /\ UNCHANGED expr

\* lines 140-143: a nested expression calls evaluate_rpn_input
EvalNested ==
  /\ Evaluating
  /\ is_nested(Token)
  /\ frames' = Append(frames, Frame(Token, "enter", <<>>, 1, <<>>))
  /\ last' = Event("nested", Token, Depth, Top.stack, NoStep(Top.stack), NoValue)
  /\ UNCHANGED <<expr, outcomes>>

\* lines 145-148
EvalNumber ==
  /\ Evaluating
  /\ ~is_nested(Token)
  /\ NUMBER_RE_fullmatch(Token)
  /\ LET value == ParseNumber(Token)
         step == StepResult("none", Append(Top.stack, value), 0, <<>>, FALSE)
     IN /\ Apply(step)
        /\ last' = Event("number", Token, Depth, Top.stack, step, value)
  /\ UNCHANGED expr

\* lines 150-155
EvalUnary ==
  /\ Evaluating
  /\ ~is_nested(Token)
  /\ ~NUMBER_RE_fullmatch(Token)
  /\ Token \in UNARY_TOKENS
  /\ LET step == UnaryStep(Top.stack, Token) IN
       /\ Apply(step)
       /\ last' = Event("unary", Token, Depth, Top.stack, step, NoValue)
  /\ UNCHANGED expr

\* lines 157-163
EvalOperator ==
  /\ Evaluating
  /\ ~is_nested(Token)
  /\ ~NUMBER_RE_fullmatch(Token)
  /\ Token \notin UNARY_TOKENS
  /\ Token \in ALLOWED_OPERATORS
  /\ LET step == OperatorStep(Top.stack, Token) IN
       /\ step.err # "Unmodelled"
       /\ Apply(step)
       /\ last' = Event("operator", Token, Depth, Top.stack, step, NoValue)
  /\ UNCHANGED expr

\* lines 165-179
EvalFunction ==
  /\ Evaluating
  /\ ~is_nested(Token)
  /\ ~NUMBER_RE_fullmatch(Token)
  /\ Token \notin UNARY_TOKENS
  /\ Token \notin ALLOWED_OPERATORS
  /\ Token \in BUILTIN_NAMES
  /\ LET step == FunctionStep(Top.stack, Token) IN
       /\ step.err # "Unmodelled"
       /\ Apply(step)
       /\ last' = Event("function", Token, Depth, Top.stack, step, NoValue)
  /\ UNCHANGED expr

\* line 181
EvalUnknown ==
  /\ Evaluating
  /\ ~is_nested(Token)
  /\ ~NUMBER_RE_fullmatch(Token)
  /\ Token \notin UNARY_TOKENS
  /\ Token \notin ALLOWED_OPERATORS
  /\ Token \notin BUILTIN_NAMES
  /\ Fail("UnknownToken")
  /\ last' = Event("unknown", Token, Depth, Top.stack,
                   StepResult("UnknownToken", Top.stack, 0, <<>>, FALSE), NoValue)
  /\ UNCHANGED expr

\* mutant of ReturnTo: the result replaces the caller's stack
ReturnToCleared(caller, v) ==
  [caller EXCEPT !.idx = @ + 1, !.stack = <<v>>]

\* lines 141-142: the caller pushes the result of the nested call and goes on
ReturnTo(caller, v) ==
  [caller EXCEPT !.idx = @ + 1, !.stack = Append(@, v)]

\* lines 183-187, then lines 141-142 in the caller: every token is consumed
Finish ==
  /\ frames # <<>>
  /\ Top.phase = "eval"
  /\ Top.idx > Len(Top.tokens)
  /\ IF StackReduced(Top.stack)
       THEN LET v == Top.stack[1] IN
         /\ IF Depth = 1
              THEN /\ outcomes' = Append(outcomes, Ok(v))
                   /\ frames' = <<>>
              ELSE /\ frames' = [SubSeq(frames, 1, Depth - 1) EXCEPT ![Depth - 1] =
                                   ReturnTo(@, v)]
                   /\ UNCHANGED outcomes
         /\ last' = Event("finish", <<>>, Depth, Top.stack, NoStep(Top.stack), v)
       ELSE /\ Fail("MalformedExpression")
            /\ last' = Event("finish", <<>>, Depth, Top.stack,
                             StepResult("MalformedExpression", Top.stack, 0, <<>>, FALSE),
                             NoValue)
  /\ UNCHANGED expr

Next ==
  \/ Call
  \/ Enter
  \/ EvalNested
  \/ EvalNumber
  \/ EvalUnary
  \/ EvalOperator
  \/ EvalFunction
  \/ EvalUnknown
  \/ Finish

Spec == Init /\ [][Next]_vars

-----------------------------------------------------------------------------
\* What the claims speak of

\* the outcome of evaluate_rpn_input(E), once that call is over
Evaluated == Len(outcomes) >= 1
Outcome == outcomes[1]

\* the outcome of evaluate_rpn_input("(" + E + ")"), once that call is over
BothEvaluated == Len(outcomes) = 2
WrappedOutcome == outcomes[2]

Returns(o, v) == o = Ok(v)
Fails(o) == o.err # "none"

\* the call that ran last is over and failed with this error
CallFailedWith(kind) ==
  /\ frames = <<>>
  /\ outcomes # <<>>
  /\ outcomes[Len(outcomes)] = Raise(kind)

\* the number a literal of the grammar  "-"? digit+ ("." digit+)?  denotes
LiteralValue(word) ==
  IF word[1] = "-" THEN Neg(ParseNumber(Tail(word))) ELSE ParseNumber(word)

UnsignedNumberWords == {x \in NumberWords : x[1] # "-"}

\* "a b op" returns a op b, wherever a op b is defined
OperandOrderOn(words) ==
  \A a \in words, b \in words, op \in OperatorWords :
    (expr = Join(<<a, b, op>>) /\ Evaluated) =>
      LET r == apply_operator(LiteralValue(a), LiteralValue(b), op) IN
        r.err = "none" => Returns(Outcome, r.val)

\* C1: for all operands a, b and every binary operator op for which a op b is
\* defined, "a b op" returns a op b with a, pushed first, as the left operand:
\* "5 2 -" is 3, "3 4 2 * +" is 11 and "5 1 2 + 4 * + 3 -" is 14.
C1_OperandOrder ==
  /\ OperandOrderOn(NumberWords)
  /\ (expr = <<"5", " ", "2", " ", "-">> /\ Evaluated) => Returns(Outcome, PyInt(3))
  /\ (expr = <<"3", " ", "4", " ", "2", " ", "*", " ", "+">> /\ Evaluated) => Returns(Outcome, PyInt(11))
  /\ (expr = <<"5", " ", "1", " ", "2", " ", "+", " ", "4", " ", "*", " ", "+", " ", "3", " ", "-">> /\ Evaluated) => Returns(Outcome, PyInt(14))

\* The part of C1 the code keeps: the operand order, for operands written
\* without a sign.
C1_UnsignedOperandOrder ==
  /\ OperandOrderOn(UnsignedNumberWords)
  /\ (expr = <<"5", " ", "2", " ", "-">> /\ Evaluated) => Returns(Outcome, PyInt(3))
  /\ (expr = <<"3", " ", "4", " ", "2", " ", "*", " ", "+">> /\ Evaluated) => Returns(Outcome, PyInt(11))
  /\ (expr = <<"5", " ", "1", " ", "2", " ", "+", " ", "4", " ", "*", " ", "+", " ", "3", " ", "-">> /\ Evaluated) => Returns(Outcome, PyInt(14))

\* C6: for every number x, "x u-" returns -x: the token u- with one operand
\* on the stack pops it and pushes its negation ("5 u-" is -5).
C6_UnaryMinusToken ==
  \A x \in SmallNumberWords :
    (expr = Join(<<x, <<"u", "-">>>>) /\ Evaluated) => Returns(Outcome, Neg(ParseNumber(x)))

\* the tokens max<k> and min<k> of C7: <<token, function, k>>
CountedFunctionWords ==
  {<<<<"m", "a", "x", "3">>, FN_max, 3>>, <<<<"m", "a", "x", "0">>, FN_max, 0>>, <<<<"m", "i", "n", "2">>, FN_min, 2>>}

\* C7: a token max<k> or min<k> pops exactly k operands and pushes their
\* maximum or minimum ("1 5 3 max3" is 5); with k = 0 or fewer than k values
\* on the stack the evaluation fails.
C7_CountedMaxMin ==
  /\ \A ws \in SeqsUpTo(SmallNumberWords, MaxWords + 1), f \in CountedFunctionWords :
       (expr = Join(Append(ws, f[1])) /\ Evaluated) =>
         LET values == [i \in 1..Len(ws) |-> ParseNumber(ws[i])] IN
           IF f[3] = 0 \/ Len(ws) < f[3] THEN Fails(Outcome)
           ELSE Len(ws) = f[3] =>
                  Returns(Outcome, BuiltinBody(f[2], values))
  /\ (expr = <<"1", " ", "5", " ", "3", " ", "m", "a", "x", "3">> /\ Evaluated) => Returns(Outcome, PyInt(5))
  /\ (expr = <<"1", " ", "m", "a", "x", "0">> /\ Evaluated) => Fails(Outcome)
  /\ (expr = <<"1", " ", "2", " ", "m", "i", "n", "1", "0", "0", "0", "0">> /\ Evaluated) => Fails(Outcome)

\* the tokens of the top-level expression, once it is tokenized
TopLevelTokens ==
  IF frames # <<>> /\ frames[1].phase = "eval" THEN frames[1].tokens ELSE <<>>

\* C8: a '-' immediately followed by a digit starts a number literal: the
\* tokenizer emits sign and digits as one token and the evaluator pushes the
\* negative Integer (Float with a decimal point), so "-d" evaluates to the
\* negative number and "-3 5 +" evaluates to 2.
C8_NegativeLiteral ==
  /\ \A d \in UnsignedNumberWords :
       /\ (expr = <<"-">> \o d /\ outcomes = <<>> /\ frames # <<>>
             /\ frames[1].phase = "eval")
            => TopLevelTokens = << <<"-">> \o d >>
       /\ (expr = <<"-">> \o d /\ Evaluated) => Returns(Outcome, Neg(ParseNumber(d)))
  /\ (expr = <<"-", "3", " ", "5", " ", "+">> /\ Evaluated) => Returns(Outcome, PyInt(2))

\* a call of evaluate_rpn_input has just ended
CallJustEnded == frames = <<>> /\ last.kind \notin {"init", "call"}

\* C2: _evaluate_tokens returns a value if and only if every token was
\* processed without error and the stack then holds exactly one value; with
\* all tokens consumed and zero or more than one value on the stack the
\* evaluation fails with MalformedExpression and returns no value.
C2_ExactlyOneValue ==
  /\ last.kind = "finish" =>
       /\ last.consumed = last.ntokens
       /\ IF Len(last.before) = 1
            THEN /\ last.err = "none"
                 /\ last.result = last.before[1]
                 /\ last.depth = 1 =>
                      (frames = <<>> /\ Returns(outcomes[Len(outcomes)], last.result))
                 /\ last.depth > 1 =>
                      (Depth = last.depth - 1 /\ Top.stack[Len(Top.stack)] = last.result)
            ELSE /\ last.err = "MalformedExpression"
                 /\ CallFailedWith("MalformedExpression")
  /\ CallJustEnded =>
       (~Fails(outcomes[Len(outcomes)])
          <=> (last.kind = "finish" /\ last.depth = 1 /\ Len(last.before) = 1))
  /\ (expr \in {<<>>, <<"(", ")">>, <<"1", " ", "2">>} /\ Evaluated) =>
       Outcome = Raise("MalformedExpression")

\* all tokens consumed with more than one value left: the call failed
C2_Witness ==
  /\ last.kind = "finish"
  /\ Len(last.before) > 1
  /\ last.ntokens > 0
  /\ CallFailedWith("MalformedExpression")

\* the operands a step needs before it pops: 2 for a binary operator, 1 for a
\* unary one, min_args for a function
Needed(kind, token) ==
  IF kind = "operator" THEN 2
  ELSE IF kind = "unary" THEN 1
  ELSE IF kind = "function" THEN BUILTIN_FUNCTIONS(token)[1]
  ELSE 0

\* C3: the operand stack is never popped while empty: a binary operator with
\* fewer than 2 values, a unary operator with none and a function with fewer
\* than min_args values each fail with InsufficientOperands or
\* InsufficientArguments before any value is popped ("2 +" and "sqrt" fail).
C3_NoPopOnEmpty ==
  /\ ~last.poppedEmpty
  /\ last.popped <= Len(last.before)
  /\ (last.kind \in {"operator", "unary", "function"}
        /\ Len(last.before) < Needed(last.kind, last.token)) =>
       /\ last.err = (IF last.kind = "function" THEN "InsufficientArguments"
                      ELSE "InsufficientOperands")
       /\ last.popped = 0
       /\ last.after = last.before
       /\ CallFailedWith(last.err)
  /\ (expr \in {<<"2", " ", "+">>, <<"s", "q", "r", "t">>} /\ Evaluated) => Fails(Outcome)

\* a binary operator reached with one value on the stack
C3_Witness ==
  /\ last.kind = "operator"
  /\ Len(last.before) = 1
  /\ last.popped = 0
  /\ CallFailedWith("InsufficientOperands")

\* / by zero, or // or % of Integers by zero
ZeroDivisor(token, args) ==
  /\ Len(args) = 2
  /\ IsZero(args[2])
  /\ \/ token = OP_div
     \/ /\ token \in {OP_floordiv, OP_mod}
        /\ isinstance_int(args[1])
        /\ isinstance_int(args[2])

\* C4: / with a right operand equal to zero, and // or % of Integers with a
\* right operand equal to zero, never push a value: the whole evaluation,
\* also from inside a nested sub-expression, fails with DivisionByZero.
C4_DivisionByZero ==
  /\ (last.kind = "operator" /\ ZeroDivisor(last.token, last.args)) =>
       /\ last.err = "DivisionByZero"
       /\ last.after = Remaining(last.before, 2)
       /\ CallFailedWith("DivisionByZero")
  /\ \A op \in {OP_div, OP_floordiv, OP_mod} :
       (expr = Join(<<<<"5">>, <<"0">>, op>>) /\ Evaluated) =>
         Outcome = Raise("DivisionByZero")

\* a division by zero inside a nested sub-expression
C4_Witness ==
  /\ last.kind = "operator"
  /\ last.depth >= 2
  /\ ZeroDivisor(last.token, last.args)
  /\ CallFailedWith("DivisionByZero")

\* the activations after the innermost one returned v to its caller, which
\* pushes v as it pushes a number and goes on with its next token
PushedInCaller(v) ==
  [i \in 1..(Depth - 1) |->
     IF i = Depth - 1
       THEN [frames[i] EXCEPT !.stack = Append(frames[i].stack, v),
                              !.idx = frames[i].idx + 1]
       ELSE frames[i]]

\* a nested expression evaluated to a value: exactly that one value is pushed
\* on the caller's stack, nothing else changes
NestedValuePushed ==
  (Depth >= 2 /\ last'.kind = "finish" /\ last'.err = "none") =>
    /\ Top.stack = <<last'.result>>
    /\ frames' = PushedInCaller(last'.result)
    /\ outcomes' = outcomes

\* a failure inside a nested expression: the call fails with that error and
\* no activation is left to process another token
NestedFailurePropagates ==
  (Depth >= 2 /\ last'.err # "none") =>
    /\ frames' = <<>>
    /\ outcomes' = Append(outcomes, Raise(MapException(last'.err)))

\* C5: a nested-expression token "(E)" whose E evaluates to v pushes exactly
\* the one value v on the outer stack and the outer evaluation goes on as if
\* v had been pushed directly ("(1 2 +) 4 *" is 12); if evaluating E fails,
\* the outer evaluation fails with the same error and no outer token after
\* "(E)" is processed.
C5_NestedExpression ==
  /\ [][NestedValuePushed /\ NestedFailurePropagates]_vars
  /\ [](/\ (expr = <<"(", "1", " ", "2", " ", "+", ")", " ", "4", " ", "*">> /\ Evaluated) => Returns(Outcome, PyInt(12))
        /\ \A op \in NestingOperatorWords :
             (expr = Join(<<<<"(", "2", " ", "5", " ", "+", ")">>, <<"4">>, op>>) /\ Evaluated) =>
               Outcome = apply_operator(PyInt(7), PyInt(4), op)
        /\ \A y \in OperandWords, op \in NestingOperatorWords :
             (expr = Join(<<<<"(", "5", " ", "0", " ", "/", ")">>, y, op>>) /\ Evaluated) =>
               Outcome = Raise("DivisionByZero"))

\* a nested expression returned its value to a caller that already held one
C5_Witness ==
  /\ last.kind = "finish"
  /\ last.depth >= 2
  /\ last.err = "none"
  /\ Depth = last.depth - 1
  /\ Len(Top.stack) >= 2
  /\ Top.stack[Len(Top.stack)] = last.result

\* n of C9: min_args for a fixed arity, min(s, max_args) for a variadic one
ClaimedArgCount(s, min_args, max_args) ==
  IF max_args > min_args
    THEN (IF s < max_args THEN s ELSE max_args)
    ELSE min_args

\* what C9 says of a function step, but for the push of the result
FunctionDispatch(pushes) ==
  last.kind = "function" =>
    LET s == Len(last.before)
        min_args == BUILTIN_FUNCTIONS(last.token)[1]
        max_args == BUILTIN_FUNCTIONS(last.token)[2]
        n == ClaimedArgCount(s, min_args, max_args)
    IN IF s < min_args
         THEN /\ last.err = "InsufficientArguments"
              /\ last.popped = 0
              /\ last.after = last.before
              /\ CallFailedWith("InsufficientArguments")
         ELSE /\ last.popped = n
              /\ last.args = SubSeq(last.before, s - n + 1, s)
              /\ min_args <= Len(last.args)
              /\ Len(last.args) <= max_args
              /\ pushes

\* the step pushed exactly one result, leaving s - n + 1 values
OneResultPushed ==
  /\ last.err = "none"
  /\ Len(last.after) = Len(last.before) - last.popped + 1
  /\ Remaining(last.after, 1) = Remaining(last.before, last.popped)
  /\ Ok(last.after[Len(last.after)]) = BuiltinBody(last.token, last.args)

\* the built-in itself raised: nothing is pushed and the call fails
BuiltinRaised ==
  /\ BuiltinBody(last.token, last.args).err \in {"ValueError", "ZeroDivisionError"}
  /\ last.err = "FunctionExecutionError"
  /\ last.after = Remaining(last.before, last.popped)
  /\ CallFailedWith("FunctionExecutionError")

\* C9 as stated: a registered function reached with s values fails with
\* InsufficientArguments, popping nothing, if s < minArgs; otherwise exactly n
\* values are popped (n = minArgs for a fixed arity, min(s, maxArgs) for a
\* variadic function), passed in push order with minArgs <= n <= maxArgs, and
\* exactly one result is pushed, leaving s - n + 1 values.
C9_FunctionDispatch == FunctionDispatch(OneResultPushed)

\* C9 amended: as stated, except that when the built-in itself raises (sqrt
\* of a negative value, pow of zero to a negative power) no result is pushed
\* and the evaluation fails with FunctionExecutionError.
C9_FunctionDispatchUnlessRaised == FunctionDispatch(OneResultPushed \/ BuiltinRaised)

\* a variadic function reached with more than max_args values: the values
\* beyond max_args stay on the stack
C9_Witness ==
  /\ last.kind = "function"
  /\ BUILTIN_FUNCTIONS(last.token)[2] > BUILTIN_FUNCTIONS(last.token)[1]
  /\ Len(last.before) > BUILTIN_FUNCTIONS(last.token)[2]
  /\ last.popped = BUILTIN_FUNCTIONS(last.token)[2]
  /\ last.err = "none"
  /\ Len(last.after) = Len(last.before) - last.popped + 1

\* E starts with '(' and ends with ')', and its first '(' is not closed by
\* its last ')'
OuterParenthesesMismatched(E) ==
  LET t == strip(E) IN
    /\ startswith(t, "(")
    /\ endswith(t, ")")
    /\ find_matching_parenthesis(t, 1) # Len(t)

\* C10: evaluate_rpn_input(E) and evaluate_rpn_input("(" + E + ")") have the
\* same outcome: both return the same value or both fail; an E that starts
\* with '(' and ends with ')' without its first '(' matching its last ')'
\* never evaluates to a value.
C10_OuterParenthesesTransparent ==
  /\ BothEvaluated =>
       \/ (~Fails(Outcome) /\ WrappedOutcome = Outcome)
       \/ (Fails(Outcome) /\ Fails(WrappedOutcome))
  /\ (OuterParenthesesMismatched(expr) /\ Evaluated) => Fails(Outcome)
  /\ (expr = <<"(", "1", ")", " ", "2", " ", "+", " ", "(", "3", ")">> /\ Evaluated) => Fails(Outcome)

\* both calls made for an E whose first '(' is closed before its last ')'
C10_Witness ==
  /\ OuterParenthesesMismatched(expr)
  /\ find_matching_parenthesis(strip(expr), 1) # 0
  /\ BothEvaluated
  /\ Fails(Outcome)
  /\ Fails(WrappedOutcome)

=============================================================================
